---- MODULE Spec2Model ----
(***************************************************************************)
(* State-machine model of the conversational surfaces of the MS Ally       *)
(* frontend: the standalone Chat component (components/Chat.tsx), the App  *)
(* text chat (App.tsx handleSend) with the speakText service               *)
(* (services/elevenlabs.ts), and the VoiceAssistant component hosted by    *)
(* App.  Every awaited fetch is split into the step that issues it and the *)
(* step that resumes the suspended handler, so that other user events can  *)
(* interleave exactly where the JavaScript event loop allows them.         *)
(***************************************************************************)
EXTENDS Integers, Sequences, FiniteSets, TLC

\* ------------------------------------------------------------------ bounds
MaxTurns == 2       \* chat requests issued in one behaviour of the App
MaxChatTurns == 3   \* chat requests issued in one behaviour of the Chat component
MaxMounts == 1      \* times the VoiceAssistant is mounted in one behaviour
MaxLogs == 2        \* entries submitted on the track tab in one behaviour
MaxFetches == 3     \* fetchData calls of the report tab in one behaviour
MaxReportMounts == 2  \* times the AnalyticsReport is mounted in one behaviour

\* --------------------------------------------------------------- constants
None == "undefined"                 \* JavaScript undefined / null
SessionIds == {"s1", "s2"}          \* identifiers the backend may return
ResponseSessionIds == SessionIds \cup {""}
Tabs == {"chat"}                    \* the tab that shows the conversation
NoAudio == 0                        \* currentAudio === null
Reply == <<"r">>                    \* reply text of the backend
Texts == {<<>>, <<" ">>, <<"h", " ">>}   \* texts a user can submit

ChatSendError == "Failed to send message. Please try again."
AppAgentError == <<"Connection error with Agent.">>
VoiceAgentError == "Failed to get response. Please try again."

VARIABLES
    root,         \* which root component is mounted and which of its parts
                  \* the behaviour exercises: "Chat" (the standalone Chat),
                  \* "App" (the chat tab and the voice surface of the App),
                  \* "AppTrack" (the track tab), "AppReport" (the report
                  \* tab).  The handlers of one part touch no state of another.
    clock,        \* number of requests issued so far (ghost turn tags)
    chat,         \* state of the Chat component (useState cells)
    chatReqs,     \* Chat: suspended sendMessage calls awaiting /chat
    chatGhost,    \* ghost: committed = the turns completed since the last
                  \* clear, adopted = the last session id a response brought
                  \* since then, failed/failHist = whether the last completed
                  \* request failed and the history it had sent
    app,          \* state of the App component (useState cells)
    appReqs,      \* App: suspended handleSend calls awaiting /chat
    appGhost,     \* ghost: adopted, failed, failHist as in chatGhost;
                  \* latestTurn, latestSid = the latest-issued request whose
                  \* response brought a session id, and that id
    tts,          \* services/elevenlabs: currentAudio and pending promises
    voice,        \* state, refs and effect closure of the VoiceAssistant
    voiceReqs,    \* VoiceAssistant: suspended handleUserSpeech calls
    voiceGhost,   \* ghost: as chatGhost, for the mounted VoiceAssistant, and
                  \* stopped = the turns whose speech the user has stopped
    rec,          \* the SpeechRecognition object of the mounted VoiceAssistant
    speakFetches, \* pending POST /speak fetches of all surfaces
    audios,       \* audio elements that are currently playing
    tracker,      \* state of the Tracker component and its pending timeouts
    appLog,       \* App: isSyncing and userData
    logReqs,      \* App: suspended handleLogSymptom calls awaiting the fetch
    trackGhost,   \* ghost: confirmed = the entries whose confirmation was
                  \* shown, accepted / failed = the entries the backend
                  \* accepted / that failed
    report,       \* state of the AnalyticsReport component
    storage,      \* sessionStorage: the msally_report_* items
    reportReqs    \* AnalyticsReport: suspended fetchData calls

vars == <<root, clock, chat, chatReqs, chatGhost,
          app, appReqs, appGhost, tts, voice, voiceReqs, voiceGhost, rec,
          speakFetches, audios, tracker, appLog, logReqs, trackGhost,
          report, storage, reportReqs>>

trackVars == <<tracker, appLog, logReqs, trackGhost>>
reportVars == <<report, storage, reportReqs>>

chatVars == <<chat, chatReqs, chatGhost>>
appVars == <<app, appReqs, appGhost, tts>>
voiceVars == <<voice, voiceReqs, voiceGhost, rec>>

\* ----------------------------------------------------------- pure helpers
\* String.prototype.trim on a sequence of characters
RECURSIVE TrimLeft(_)
TrimLeft(s) == IF s # <<>> /\ Head(s) = " " THEN TrimLeft(Tail(s)) ELSE s

RECURSIVE TrimRight(_)
TrimRight(s) ==
    IF s # <<>> /\ s[Len(s)] = " " THEN TrimRight(SubSeq(s, 1, Len(s) - 1)) ELSE s

\* Variant of Trim that removes nothing
Trim_keepsWhitespace(s) == s

Trim(s) == TrimRight(TrimLeft(s))

\* A ChatMessage {role, content}.  turn is a ghost tag naming the round trip
\* that produced the message; it is not part of the payload.
Msg(role, content, turn) == [role |-> role, content |-> content, turn |-> turn]

\* `if (result.session_id) setSessionId(result.session_id)`
AdoptSession(current, returned) == IF returned # "" THEN returned ELSE current

SeqToSet(s) == {s[i] : i \in 1..Len(s)}

\* ------------------------------------------------------------------- Chat
ChatInit ==
    /\ \E speech \in (IF root = "Chat" THEN BOOLEAN ELSE {FALSE}) :
          chat = [messages |-> <<>>, inputText |-> <<>>, isLoading |-> FALSE,
                  sessionId |-> None, error |-> None,
                  isSpeechEnabled |-> speech]
    /\ chatReqs = {}
    /\ chatGhost = [committed |-> <<>>, adopted |-> None,
                    failed |-> FALSE, failHist |-> <<>>]

\* onChange of the input box (disabled while isLoading)
ChatType(text) ==
    /\ root = "Chat"
    /\ ~chat.isLoading
    /\ chat.inputText # text
    /\ chat' = [chat EXCEPT !.inputText = text]
    /\ UNCHANGED <<root, trackVars, reportVars, clock, chatReqs, chatGhost, appVars, voiceVars, speakFetches, audios>>

\* The history argument sendMessage hands to chatWithAgent: the messages of
\* the render the handler was created in, without the message just typed.
ChatHistoryArg(c, userMsg) == c.messages

\* sendMessage up to `await chatWithAgent(...)`
ChatSendMessage ==
    /\ root = "Chat"
    /\ IF Trim(chat.inputText) = <<>> \/ chat.isLoading
       THEN UNCHANGED <<root, trackVars, reportVars, clock, chatVars, appVars, voiceVars, speakFetches, audios>>
       ELSE /\ clock < MaxChatTurns
            /\ LET userMessage == Trim(chat.inputText)
                   userMsg == Msg("user", userMessage, clock + 1)
                   updatedMessages == Append(chat.messages, userMsg)
               IN /\ chat' = [chat EXCEPT !.inputText = <<>>, !.error = None,
                                          !.isLoading = TRUE,
                                          !.messages = updatedMessages]
                  /\ chatReqs' = chatReqs \cup
                        {[turn |-> clock + 1,
                          message |-> userMessage,
                          history |-> ChatHistoryArg(chat, userMsg),
                          messages |-> chat.messages,
                          updatedMessages |-> updatedMessages,
                          sessionId |-> chat.sessionId,
                          isSpeechEnabled |-> chat.isSpeechEnabled,
                          stale |-> FALSE,
                          committed |-> chatGhost.committed,
                          adopted |-> chatGhost.adopted,
                          afterFailure |-> chatGhost.failed,
                          failHist |-> chatGhost.failHist]}
            /\ clock' = clock + 1
            /\ UNCHANGED <<root, trackVars, reportVars, chatGhost, appVars, voiceVars, speakFetches, audios>>

\* Variant of ChatResponseOk that does not append the assistant's reply
ChatResponseOk_dropsReply(r, sid) ==
    /\ root = "Chat"
    /\ r \in chatReqs
    /\ chat' = [chat EXCEPT !.sessionId = AdoptSession(chat.sessionId, sid),
                            !.messages = r.updatedMessages,
                            !.isLoading = FALSE]
    /\ chatGhost' = [chatGhost EXCEPT
                        !.adopted = AdoptSession(chatGhost.adopted, sid),
                        !.failed = FALSE, !.failHist = <<>>]
    /\ chatReqs' = chatReqs \ {r}
    /\ UNCHANGED <<root, trackVars, reportVars, clock, appVars, voiceVars, speakFetches, audios>>

\* sendMessage resumed with a successful response {text: Reply, session_id: sid}
ChatResponseOk(r, sid) ==
    /\ root = "Chat"
    /\ r \in chatReqs
    /\ LET reply == Msg("assistant", Reply, r.turn)
       IN /\ chat' = [chat EXCEPT
                        !.sessionId = AdoptSession(chat.sessionId, sid),
                        !.messages = Append(r.updatedMessages, reply),
                        !.isLoading = FALSE]
          /\ chatGhost' = [chatGhost EXCEPT
                        !.committed = chatGhost.committed \o
                                      <<Msg("user", r.message, r.turn), reply>>,
                        !.adopted = AdoptSession(chatGhost.adopted, sid),
                        !.failed = FALSE, !.failHist = <<>>]
    /\ chatReqs' = chatReqs \ {r}
    \* `if (isSpeechEnabled) playTTS(result.text)`: not awaited
    /\ speakFetches' = IF r.isSpeechEnabled
                       THEN speakFetches \cup
                            {[owner |-> "Chat", turn |-> r.turn, gen |-> 0]}
                       ELSE speakFetches
    /\ UNCHANGED <<root, trackVars, reportVars, clock, appVars, voiceVars, audios>>

\* Variant of ChatResponseFail that keeps the optimistic user message
ChatResponseFail_keepsUserMessage(r) ==
    /\ root = "Chat"
    /\ r \in chatReqs
    /\ chat' = [chat EXCEPT !.error = ChatSendError,
                            !.messages = r.updatedMessages,
                            !.isLoading = FALSE]
    /\ chatGhost' = [chatGhost EXCEPT !.failed = TRUE, !.failHist = r.history]
    /\ chatReqs' = chatReqs \ {r}
    /\ UNCHANGED <<root, trackVars, reportVars, clock, appVars, voiceVars, speakFetches, audios>>

\* sendMessage resumed in its catch block (chatWithAgent threw)
ChatResponseFail(r) ==
    /\ root = "Chat"
    /\ r \in chatReqs
    /\ chat' = [chat EXCEPT !.error = ChatSendError,
                            !.messages = r.messages,
                            !.isLoading = FALSE]
    /\ chatGhost' = [chatGhost EXCEPT !.failed = TRUE, !.failHist = r.history]
    /\ chatReqs' = chatReqs \ {r}
    /\ UNCHANGED <<root, trackVars, reportVars, clock, appVars, voiceVars, speakFetches, audios>>

\* Variant of clearChat that forgets to reset the session id
clearChat_keepsSession(c) == [c EXCEPT !.messages = <<>>, !.error = None]

\* clearChat as a function of the component state
clearChat(c) == [c EXCEPT !.messages = <<>>, !.sessionId = None, !.error = None]

\* The Clear button, rendered only while messages.length > 0
ChatClearChat ==
    /\ root = "Chat"
    /\ Len(chat.messages) > 0
    /\ chat' = clearChat(chat)
    /\ chatReqs' = {[r EXCEPT !.stale = TRUE] : r \in chatReqs}
    /\ chatGhost' = [committed |-> <<>>, adopted |-> None,
                     failed |-> FALSE, failHist |-> <<>>]
    /\ UNCHANGED <<root, trackVars, reportVars, clock, appVars, voiceVars, speakFetches, audios>>

\* Chat.playTTS resumed after `await fetch(/speak)`: ok is response.ok,
\* plays tells whether audio.play() fulfils or rejects
ChatPlayTTSResume(f, ok, plays) ==
    /\ root = "Chat"
    /\ f \in speakFetches
    /\ f.owner = "Chat"
    /\ speakFetches' = speakFetches \ {f}
    /\ audios' = IF ok /\ plays THEN audios \cup {f} ELSE audios
    /\ UNCHANGED <<root, trackVars, reportVars, clock, chatVars, appVars, voiceVars>>

\* audio.onended of an element created by Chat.playTTS
ChatAudioEnded(a) ==
    /\ root = "Chat"
    /\ a \in audios
    /\ a.owner = "Chat"
    /\ audios' = audios \ {a}
    /\ UNCHANGED <<root, trackVars, reportVars, clock, chatVars, appVars, voiceVars, speakFetches>>

ChatNext ==
    \/ \E text \in Texts : ChatType(text)
    \/ ChatSendMessage
    \/ \E r \in chatReqs : \E sid \in ResponseSessionIds : ChatResponseOk(r, sid)
    \/ \E r \in chatReqs : ChatResponseFail(r)
    \/ ChatClearChat
    \/ \E f \in speakFetches : \E ok, plays \in BOOLEAN : ChatPlayTTSResume(f, ok, plays)
    \/ \E a \in audios : ChatAudioEnded(a)

\* -------------------------------------------- services/elevenlabs speakText
\* An audio element is named by its owner and the turn whose reply it plays
Audio(owner, turn, gen) == [owner |-> owner, turn |-> turn, gen |-> gen]

\* stopSpeaking(): pauses and forgets currentAudio, if any
StopSpeakingAudios(t, playing) ==
    IF t.currentAudio # NoAudio
    THEN playing \ {Audio("App", t.currentAudio, 0)}
    ELSE playing

StopSpeakingTts(t) == [t EXCEPT !.currentAudio = NoAudio]

\* ---------------------------------------------------------------- App chat
AppInit ==
    /\ app = [messages |-> <<>>, isThinking |-> FALSE, sessionId |-> None,
              isSpeechEnabled |-> TRUE, isVoiceActive |-> FALSE,
              isVoiceInputEnabled |-> TRUE, activeTab |-> "chat"]
    /\ appReqs = {}
    /\ appGhost = [adopted |-> None, failed |-> FALSE, failHist |-> <<>>,
                   latestTurn |-> 0, latestSid |-> None]
    /\ tts = [currentAudio |-> NoAudio, pending |-> {}]

\* `messages.map(m => ({ role: m.role, content: m.content }))`
ToApiHistory(messages) ==
    [i \in 1..Len(messages) |->
        Msg(messages[i].role, messages[i].content, messages[i].turn)]

\* setMessages(prev => [...prev, m])
AppAppend(a, m) == [a EXCEPT !.messages = Append(a.messages, m)]

\* handleSend(text) up to `await chatWithAgent(...)`; the footer that calls
\* it is rendered while !isVoiceActive && activeTab === 'chat'
AppHandleSend(text) ==
    /\ root = "App"
    /\ ~app.isVoiceActive
    /\ app.activeTab = "chat"
    /\ IF Trim(text) = <<>>
       THEN UNCHANGED <<root, trackVars, reportVars, clock, chatVars, appVars, voiceVars, speakFetches, audios>>
       ELSE /\ clock < MaxTurns
            /\ app' = [AppAppend(app, Msg("user", text, clock + 1))
                         EXCEPT !.isThinking = TRUE]
            /\ appReqs' = appReqs \cup
                  {[turn |-> clock + 1,
                    message |-> text,
                    history |-> ToApiHistory(app.messages),
                    sessionId |-> app.sessionId,
                    speak |-> app.isSpeechEnabled /\ ~app.isVoiceActive,
                    adopted |-> appGhost.adopted,
                    afterFailure |-> appGhost.failed,
                    failHist |-> appGhost.failHist]}
            /\ clock' = clock + 1
            /\ UNCHANGED <<root, trackVars, reportVars, chatVars, voiceVars, appGhost, tts, speakFetches, audios>>

\* handleSend resumed with a successful response; when speech is on it goes
\* on into speakText up to `await fetch(/speak)`
AppResponseOk(r, sid) ==
    /\ root = "App"
    /\ r \in appReqs
    /\ appReqs' = appReqs \ {r}
    /\ appGhost' = [adopted |-> AdoptSession(appGhost.adopted, sid),
                    failed |-> FALSE, failHist |-> <<>>,
                    latestTurn |-> IF sid # "" /\ r.turn > appGhost.latestTurn
                                   THEN r.turn ELSE appGhost.latestTurn,
                    latestSid |-> IF sid # "" /\ r.turn > appGhost.latestTurn
                                  THEN sid ELSE appGhost.latestSid]
    /\ LET a1 == [app EXCEPT !.sessionId = AdoptSession(app.sessionId, sid)]
           a2 == AppAppend(a1, Msg("assistant", Reply, r.turn))
       IN IF r.speak
          THEN /\ app' = a2
               /\ tts' = StopSpeakingTts(tts)
               /\ audios' = StopSpeakingAudios(tts, audios)
               /\ speakFetches' = speakFetches \cup {Audio("App", r.turn, 0)}
          ELSE /\ app' = [a2 EXCEPT !.isThinking = FALSE]
               /\ UNCHANGED <<tts, audios, speakFetches>>
    /\ UNCHANGED <<root, trackVars, reportVars, clock, chatVars, voiceVars>>

\* catch + finally of handleSend
AppCatch(a, turn) ==
    [AppAppend(a, Msg("assistant", AppAgentError, turn)) EXCEPT !.isThinking = FALSE]

\* handleSend resumed in its catch block because chatWithAgent threw
AppResponseFail(r) ==
    /\ root = "App"
    /\ r \in appReqs
    /\ appReqs' = appReqs \ {r}
    /\ app' = AppCatch(app, r.turn)
    /\ appGhost' = [appGhost EXCEPT !.failed = TRUE, !.failHist = r.history]
    /\ UNCHANGED <<root, trackVars, reportVars, clock, chatVars, voiceVars, tts, speakFetches, audios>>

\* speakText resumed after `await fetch(/speak)`.  ok is response.ok; plays
\* tells whether audio.play() fulfils.  A throw or rejection reaches the
\* catch block of the handleSend that awaits speakText.
AppSpeakTextResume(f, ok, plays) ==
    /\ root = "App"
    /\ f \in speakFetches
    /\ f.owner = "App"
    /\ speakFetches' = speakFetches \ {f}
    /\ IF ~ok
       THEN /\ app' = AppCatch(app, f.turn)
            /\ UNCHANGED <<tts, audios>>
       ELSE IF ~plays
       THEN /\ app' = AppCatch(app, f.turn)
            /\ tts' = [tts EXCEPT !.currentAudio = f.turn]
            /\ UNCHANGED audios
       ELSE /\ tts' = [currentAudio |-> f.turn, pending |-> tts.pending \cup {f.turn}]
            /\ audios' = audios \cup {f}
            /\ UNCHANGED app
    /\ UNCHANGED <<root, trackVars, reportVars, clock, chatVars, voiceVars, appReqs, appGhost>>

\* audio.onended of speakText: resolve(), then the finally of handleSend
AppAudioEnded(a) ==
    /\ root = "App"
    /\ a \in audios
    /\ a.owner = "App"
    /\ audios' = audios \ {a}
    /\ tts' = [currentAudio |-> NoAudio, pending |-> tts.pending \ {a.turn}]
    /\ app' = [app EXCEPT !.isThinking = FALSE]
    /\ UNCHANGED <<root, trackVars, reportVars, clock, chatVars, voiceVars, appReqs, appGhost, speakFetches>>

\* audio.onerror of speakText: reject(e), then catch and finally of handleSend
AppAudioError(a) ==
    /\ root = "App"
    /\ a \in audios
    /\ a.owner = "App"
    /\ audios' = audios \ {a}
    /\ tts' = [currentAudio |-> NoAudio, pending |-> tts.pending \ {a.turn}]
    /\ app' = AppCatch(app, a.turn)
    /\ UNCHANGED <<root, trackVars, reportVars, clock, chatVars, voiceVars, appReqs, appGhost, speakFetches>>

\* The Toggle Speech Output button of the header
AppToggleSpeech ==
    /\ root = "App"
    /\ app' = [app EXCEPT !.isSpeechEnabled = ~app.isSpeechEnabled]
    /\ UNCHANGED <<root, trackVars, reportVars, clock, chatVars, voiceVars, appReqs, appGhost, tts, speakFetches, audios>>

\* ---------------------------------------------------------- VoiceAssistant
VoiceUnsupportedError ==
    "Speech recognition is not supported in this browser. Try Chrome or Edge."
VoiceStartError == "Failed to start microphone. Please try again."
ErrorCodes == {"no-speech", "not-allowed", "audio-capture", "network"}

\* State of a VoiceAssistant right after its first render and its mount
\* effect.  The display-only cells transcript and response are left out.
\* effect holds the values of the first render that the handlers
\* installed by `useEffect(() => {...}, [])` close over: recognition.onresult
\* calls the handleUserSpeech of that render, recognition.onend reads the
\* voiceState of that render.
VoiceMounted(gen, isSpeechEnabled, supported) ==
    [gen |-> gen, voiceState |-> "idle",
     error |-> IF supported THEN None ELSE VoiceUnsupportedError,
     history |-> <<>>, sessionId |-> None,
     audioRef |-> NoAudio, recognitionRef |-> supported,
     effect |-> [history |-> <<>>, sessionId |-> None, voiceState |-> "idle",
                 isSpeechEnabled |-> isSpeechEnabled]]

\* The component is not rendered: its state is gone
VoiceUnmounted(gen) == VoiceMounted(gen, FALSE, FALSE)

VoiceInit ==
    /\ voice = VoiceUnmounted(0)
    /\ voiceReqs = {}
    /\ voiceGhost = [committed |-> <<>>, adopted |-> None,
                     failed |-> FALSE, failHist |-> <<>>, stopped |-> {}]
    /\ \E supported \in (IF root = "App" THEN BOOLEAN ELSE {TRUE}) :
          rec = [supported |-> supported, state |-> "inactive"]

VoiceGhostInit ==
    [committed |-> <<>>, adopted |-> None, failed |-> FALSE, failHist |-> <<>>,
     stopped |-> {}]

\* The instance that issued an asynchronous operation is still rendered
IsMounted(gen) == app.isVoiceActive /\ voice.gen = gen

\* A state setter of instance gen: no effect once the instance is unmounted
SetVoice(gen, v) == IF IsMounted(gen) THEN v ELSE voice

\* the history and session id that handleUserSpeech passes to chatWithAgent
VoiceHistoryArg(v) == v.effect.history
VoiceSessionArg(v) == v.effect.sessionId

\* App: the microphone button of the footer, setIsVoiceActive(true)
AppOpenVoice ==
    /\ root = "App"
    /\ ~app.isVoiceActive
    /\ app.activeTab = "chat"
    /\ app.isVoiceInputEnabled
    /\ voice.gen < MaxMounts
    /\ app' = [app EXCEPT !.isVoiceActive = TRUE]
    /\ voice' = VoiceMounted(voice.gen + 1, app.isSpeechEnabled, rec.supported)
    /\ rec' = [rec EXCEPT !.state = "inactive"]
    /\ voiceGhost' = VoiceGhostInit
    /\ UNCHANGED <<root, trackVars, reportVars, clock, chatVars, appReqs, appGhost, tts, voiceReqs,
                   speakFetches, audios>>

\* Unmounting the VoiceAssistant: the effect cleanup aborts the recognizer
\* and every suspended operation of the instance becomes stale
StaleReqs == {[r EXCEPT !.stale = TRUE] : r \in voiceReqs}

\* App: the chat tab of the navigation bar, clicked while the VoiceAssistant
\* covers the chat: `setActiveTab(tab); setIsVoiceActive(false)`
AppSelectTab(tab) ==
    /\ root = "App"
    /\ app.isVoiceActive
    /\ app' = [app EXCEPT !.activeTab = tab, !.isVoiceActive = FALSE]
    /\ voice' = VoiceUnmounted(voice.gen)
    /\ rec' = [rec EXCEPT !.state = "inactive"]
    /\ voiceReqs' = StaleReqs
    /\ voiceGhost' = VoiceGhostInit
    /\ UNCHANGED <<root, trackVars, reportVars, clock, chatVars, appReqs, appGhost, tts, speakFetches, audios>>

\* stopSpeaking(): pauses audioRef.current, which stays in the ref
VoiceStopAudios(v, playing) ==
    IF v.audioRef # NoAudio
    THEN playing \ {Audio("Voice", v.audioRef, v.gen)}
    ELSE playing

\* The close button: stopSpeaking(); recognition.abort(); onToggle()
VoiceClose ==
    /\ root = "App"
    /\ app.isVoiceActive
    /\ audios' = VoiceStopAudios(voice, audios)
    /\ app' = [app EXCEPT !.isVoiceActive = FALSE]
    /\ voice' = VoiceUnmounted(voice.gen)
    /\ rec' = [rec EXCEPT !.state = "inactive"]
    /\ voiceReqs' = StaleReqs
    /\ voiceGhost' = VoiceGhostInit
    /\ UNCHANGED <<root, trackVars, reportVars, clock, chatVars, appReqs, appGhost, tts, speakFetches>>

\* The main button while voiceState is neither listening, speaking nor
\* processing: startListening().  recognition.start() throws when a capture
\* cycle of this recognizer has not ended yet.
VoiceStartListening ==
    /\ root = "App"
    /\ app.isVoiceActive
    /\ voice.voiceState = "idle"
    /\ LET v == [voice EXCEPT !.error = None]
       IN IF ~voice.recognitionRef
          THEN /\ voice' = v
               /\ UNCHANGED rec
          ELSE IF rec.state # "inactive"
          THEN /\ voice' = [v EXCEPT !.error = VoiceStartError]
               /\ UNCHANGED rec
          ELSE /\ voice' = [v EXCEPT !.voiceState = "listening"]
               /\ rec' = [rec EXCEPT !.state = "capturing"]
    /\ UNCHANGED <<root, trackVars, reportVars, clock, chatVars, appVars, voiceReqs, voiceGhost,
                   speakFetches, audios>>

\* The main button while voiceState is listening: stopListening()
VoiceStopListening ==
    /\ root = "App"
    /\ app.isVoiceActive
    /\ voice.voiceState = "listening"
    /\ rec' = IF voice.recognitionRef /\ rec.state = "capturing"
              THEN [rec EXCEPT !.state = "stopping"] ELSE rec
    /\ UNCHANGED <<root, trackVars, reportVars, clock, chatVars, appVars, voice, voiceReqs, voiceGhost,
                   speakFetches, audios>>

\* Ghost: the turns a stopSpeaking() of the user is meant to silence: those
\* whose /speak request of instance v is pending and the one whose audio
\* element is in audioRef and playing
StoppedTurns(v) ==
    {f.turn : f \in {g \in speakFetches : g.owner = "Voice" /\ g.gen = v.gen}}
    \cup {a.turn : a \in {g \in audios : g = Audio("Voice", v.audioRef, v.gen)}}

\* The main button while voiceState is speaking: stopSpeaking()
VoiceStopSpeaking ==
    /\ root = "App"
    /\ app.isVoiceActive
    /\ voice.voiceState = "speaking"
    /\ audios' = VoiceStopAudios(voice, audios)
    /\ voice' = [voice EXCEPT !.voiceState = "idle"]
    /\ voiceGhost' = [voiceGhost EXCEPT !.stopped = @ \cup StoppedTurns(voice)]
    /\ UNCHANGED <<root, trackVars, reportVars, clock, chatVars, appVars, voiceReqs, rec, speakFetches>>

\* recognition.onresult with a final result: setTranscript, then
\* handleUserSpeech(text) up to `await chatWithAgent(...)`
RecFinalResult(text) ==
    /\ root = "App"
    /\ app.isVoiceActive
    /\ rec.state \in {"capturing", "stopping"}
    /\ rec' = [rec EXCEPT !.state = "ending"]
    /\ IF Trim(text) = <<>>
       THEN /\ voice' = [voice EXCEPT !.voiceState = "idle"]
            /\ UNCHANGED <<clock, app, voiceReqs>>
       ELSE /\ clock < MaxTurns
            /\ app' = AppAppend(app, Msg("user", text, clock + 1))
            /\ voice' = [voice EXCEPT !.voiceState = "processing"]
            /\ voiceReqs' = voiceReqs \cup
                  {[turn |-> clock + 1,
                    gen |-> voice.gen,
                    message |-> text,
                    history |-> VoiceHistoryArg(voice),
                    sessionId |-> VoiceSessionArg(voice),
                    isSpeechEnabled |-> voice.effect.isSpeechEnabled,
                    stale |-> FALSE,
                    committed |-> voiceGhost.committed,
                    adopted |-> voiceGhost.adopted,
                    afterFailure |-> voiceGhost.failed,
                    failHist |-> voiceGhost.failHist]}
            /\ clock' = clock + 1
    /\ UNCHANGED <<root, trackVars, reportVars, chatVars, appReqs, appGhost, tts, voiceGhost,
                   speakFetches, audios>>

\* Variant of RecErrorMessage that shows nothing for a no-speech error
RecErrorMessage_silentNoSpeech(code, current) ==
    IF code = "not-allowed" THEN "Microphone access denied."
    ELSE IF code = "audio-capture" THEN "No microphone found."
    ELSE current

\* The message recognition.onerror shows for an error code
RecErrorMessage(code, current) ==
    IF code = "no-speech" THEN "No speech detected. Try again."
    ELSE IF code = "not-allowed" THEN "Microphone access denied."
    ELSE IF code = "audio-capture" THEN "No microphone found."
    ELSE current

\* recognition.onerror
RecError(code) ==
    /\ root = "App"
    /\ app.isVoiceActive
    /\ rec.state \in {"capturing", "stopping"}
    /\ rec' = [rec EXCEPT !.state = "ending"]
    /\ voice' = [voice EXCEPT !.error = RecErrorMessage(code, voice.error),
                              !.voiceState = "idle"]
    /\ UNCHANGED <<root, trackVars, reportVars, clock, chatVars, appVars, voiceReqs, voiceGhost,
                   speakFetches, audios>>

\* recognition.onend: `if (voiceState === 'listening')` reads the voiceState
\* of the first render
RecEnd ==
    /\ root = "App"
    /\ app.isVoiceActive
    /\ rec.state \in {"stopping", "ending"}
    /\ rec' = [rec EXCEPT !.state = "inactive"]
    /\ voice' = IF voice.effect.voiceState = "listening"
                THEN [voice EXCEPT !.voiceState = "processing"]
                ELSE voice
    /\ UNCHANGED <<root, trackVars, reportVars, clock, chatVars, appVars, voiceReqs, voiceGhost,
                   speakFetches, audios>>

\* handleUserSpeech resumed with a successful response; with speech output
\* it goes on into playTTS up to `await fetch(/speak)`
VoiceResponseOk(r, sid) ==
    /\ root = "App"
    /\ r \in voiceReqs
    /\ voiceReqs' = voiceReqs \ {r}
    /\ LET user == Msg("user", r.message, r.turn)
           reply == Msg("assistant", Reply, r.turn)
       IN /\ voice' = SetVoice(r.gen,
                [voice EXCEPT
                    !.sessionId = AdoptSession(voice.sessionId, sid),
                    !.history = r.history \o <<user, reply>>,
                    !.voiceState = IF r.isSpeechEnabled THEN "speaking" ELSE "idle"])
          /\ app' = AppAppend(app, reply)
          /\ voiceGhost' = IF IsMounted(r.gen)
                           THEN [voiceGhost EXCEPT
                                    !.committed = voiceGhost.committed \o <<user, reply>>,
                                    !.adopted = AdoptSession(voiceGhost.adopted, sid),
                                    !.failed = FALSE, !.failHist = <<>>]
                           ELSE voiceGhost
    /\ speakFetches' = IF r.isSpeechEnabled
                       THEN speakFetches \cup {Audio("Voice", r.turn, r.gen)}
                       ELSE speakFetches
    /\ UNCHANGED <<root, trackVars, reportVars, clock, chatVars, appReqs, appGhost, tts, rec, audios>>

\* handleUserSpeech resumed in its catch block
VoiceResponseFail(r) ==
    /\ root = "App"
    /\ r \in voiceReqs
    /\ voiceReqs' = voiceReqs \ {r}
    /\ voice' = SetVoice(r.gen, [voice EXCEPT !.error = VoiceAgentError,
                                              !.voiceState = "idle"])
    /\ voiceGhost' = IF IsMounted(r.gen)
                     THEN [voiceGhost EXCEPT !.failed = TRUE, !.failHist = r.history]
                     ELSE voiceGhost
    /\ UNCHANGED <<root, trackVars, reportVars, clock, chatVars, appVars, rec, speakFetches, audios>>

\* playTTS resumed after `await fetch(/speak)`, through `await audio.play()`
\* (which settles when playback has started or was refused), and then the
\* `setVoiceState('idle')` that follows `await playTTS(...)`
VoicePlayTTSResume(f, ok, plays) ==
    /\ root = "App"
    /\ f \in speakFetches
    /\ f.owner = "Voice"
    /\ speakFetches' = speakFetches \ {f}
    /\ voice' = SetVoice(f.gen,
            [voice EXCEPT !.audioRef = IF ok THEN f.turn ELSE voice.audioRef,
                          !.voiceState = "idle"])
    /\ audios' = IF ok /\ plays THEN audios \cup {f} ELSE audios
    /\ UNCHANGED <<root, trackVars, reportVars, clock, chatVars, appVars, voiceReqs, voiceGhost, rec>>

\* audio.onended of an element created by VoiceAssistant.playTTS
VoiceAudioEnded(a) ==
    /\ root = "App"
    /\ a \in audios
    /\ a.owner = "Voice"
    /\ audios' = audios \ {a}
    /\ voice' = SetVoice(a.gen, [voice EXCEPT !.voiceState = "idle"])
    /\ UNCHANGED <<root, trackVars, reportVars, clock, chatVars, appVars, voiceReqs, voiceGhost, rec,
                   speakFetches>>

\* clearConversation as a function of the component state
clearConversation(v) ==
    [v EXCEPT !.history = <<>>, !.sessionId = None, !.error = None]

\* The Clear button, rendered only while history.length > 0
VoiceClearConversation ==
    /\ root = "App"
    /\ app.isVoiceActive
    /\ Len(voice.history) > 0
    /\ voice' = clearConversation(voice)
    /\ voiceReqs' = StaleReqs
    /\ voiceGhost' = [VoiceGhostInit EXCEPT !.stopped = voiceGhost.stopped]
    /\ UNCHANGED <<root, trackVars, reportVars, clock, chatVars, appVars, rec, speakFetches, audios>>

VoiceNext ==
    \/ AppOpenVoice
    \/ \E tab \in Tabs : AppSelectTab(tab)
    \/ VoiceClose
    \/ VoiceStartListening
    \/ VoiceStopListening
    \/ VoiceStopSpeaking
    \/ \E text \in Texts : RecFinalResult(text)
    \/ \E code \in ErrorCodes : RecError(code)
    \/ RecEnd
    \/ \E r \in voiceReqs : \E sid \in ResponseSessionIds : VoiceResponseOk(r, sid)
    \/ \E r \in voiceReqs : VoiceResponseFail(r)
    \/ \E f \in speakFetches : \E ok, plays \in BOOLEAN : VoicePlayTTSResume(f, ok, plays)
    \/ \E a \in audios : VoiceAudioEnded(a)
    \/ VoiceClearConversation

AppNext ==
    \/ \E text \in Texts : AppHandleSend(text)
    \/ \E r \in appReqs : \E sid \in ResponseSessionIds : AppResponseOk(r, sid)
    \/ \E r \in appReqs : AppResponseFail(r)
    \/ \E f \in speakFetches : \E ok, plays \in BOOLEAN : AppSpeakTextResume(f, ok, plays)
    \/ \E a \in audios : AppAudioEnded(a)
    \/ \E a \in audios : AppAudioError(a)
    \/ AppToggleSpeech

\* --------------------------------------- Tracker and App.handleLogSymptom
DefaultLevel == 5                   \* useState(5) of mood and fatigue
FatigueLevels == {DefaultLevel, 8}  \* positions of the fatigue slider
SymptomOptions == {"Brain Fog"}     \* symptom buttons

\* `data.fatigue >= 7 ? 'high' : data.fatigue >= 4 ? 'medium' : 'low'`
Severity(fatigue) ==
    IF fatigue >= 7 THEN "high" ELSE IF fatigue >= 4 THEN "medium" ELSE "low"

\* `data.symptoms.join(', ') || 'General check-in'`
LogType(symptoms) == IF symptoms = {} THEN {"General check-in"} ELSE symptoms

TrackInit ==
    /\ tracker = [mood |-> DefaultLevel, fatigue |-> DefaultLevel,
                  selectedSymptoms |-> {}, showSuccess |-> FALSE, timeouts |-> 0]
    /\ appLog = [isSyncing |-> FALSE,
                 userData |-> [logs |-> <<>>, metrics |-> <<>>]]
    /\ logReqs = {}
    /\ trackGhost = [confirmed |-> {}, accepted |-> {}, failed |-> {}]

\* The fatigue slider
TrackerSetFatigue(level) ==
    /\ root = "AppTrack"
    /\ tracker.fatigue # level
    /\ tracker' = [tracker EXCEPT !.fatigue = level]
    /\ UNCHANGED <<root, clock, chatVars, appVars, voiceVars, speakFetches, audios,
                   appLog, logReqs, trackGhost, reportVars>>

\* toggleSymptom
TrackerToggleSymptom(symptom) ==
    /\ root = "AppTrack"
    /\ tracker' = [tracker EXCEPT !.selectedSymptoms =
                        IF symptom \in @ THEN @ \ {symptom} ELSE @ \cup {symptom}]
    /\ UNCHANGED <<root, clock, chatVars, appVars, voiceVars, speakFetches, audios,
                   appLog, logReqs, trackGhost, reportVars>>

\* Tracker.handleSubmit: onLogSymptom(data), i.e. App.handleLogSymptom up to
\* `await fetch(/log/symptoms)`, then the success toast, its timeout and the
\* reset of the form
TrackerHandleSubmit ==
    /\ root = "AppTrack"
    /\ clock < MaxLogs
    /\ clock' = clock + 1
    /\ logReqs' = logReqs \cup
            {[entry |-> clock + 1,
              data |-> [mood |-> tracker.mood, fatigue |-> tracker.fatigue,
                        symptoms |-> tracker.selectedSymptoms]]}
    /\ appLog' = [appLog EXCEPT !.isSyncing = TRUE]
    /\ tracker' = [tracker EXCEPT !.showSuccess = TRUE,
                                  !.timeouts = @ + 1,
                                  !.selectedSymptoms = {}]
    /\ trackGhost' = [trackGhost EXCEPT !.confirmed = @ \cup {clock + 1}]
    /\ UNCHANGED <<root, chatVars, appVars, voiceVars, speakFetches, audios, reportVars>>

\* `setTimeout(() => setShowSuccess(false), 2000)` fires
TrackerToastTimeout ==
    /\ root = "AppTrack"
    /\ tracker.timeouts > 0
    /\ tracker' = [tracker EXCEPT !.showSuccess = FALSE, !.timeouts = @ - 1]
    /\ UNCHANGED <<root, clock, chatVars, appVars, voiceVars, speakFetches, audios,
                   appLog, logReqs, trackGhost, reportVars>>

\* Variant of AppendLog that appends the log entry without its metric
AppendLog_logOnly(u, r) ==
    [logs |-> Append(u.logs,
                [id |-> r.entry, type |-> LogType(r.data.symptoms),
                 severity |-> Severity(r.data.fatigue)]),
     metrics |-> u.metrics]

\* The state update of handleLogSymptom for result.success
AppendLog(u, r) ==
    [logs |-> Append(u.logs,
                [id |-> r.entry, type |-> LogType(r.data.symptoms),
                 severity |-> Severity(r.data.fatigue)]),
     metrics |-> Append(u.metrics,
                [mood |-> r.data.mood, fatigue |-> r.data.fatigue,
                 cognitiveFog |-> "Brain Fog" \in r.data.symptoms])]

\* handleLogSymptom resumed with {success: true}
LogResponseOk(r) ==
    /\ root = "AppTrack"
    /\ r \in logReqs
    /\ logReqs' = logReqs \ {r}
    /\ appLog' = [isSyncing |-> FALSE, userData |-> AppendLog(appLog.userData, r)]
    /\ trackGhost' = [trackGhost EXCEPT !.accepted = @ \cup {r.entry}]
    /\ UNCHANGED <<root, clock, chatVars, appVars, voiceVars, speakFetches, audios,
                   tracker, reportVars>>

\* handleLogSymptom resumed with {success: false} (thrown = FALSE) or in its
\* catch block (thrown = TRUE): an alert, then the finally block
LogResponseFail(r, thrown) ==
    /\ root = "AppTrack"
    /\ r \in logReqs
    /\ logReqs' = logReqs \ {r}
    /\ appLog' = [appLog EXCEPT !.isSyncing = FALSE]
    /\ trackGhost' = [trackGhost EXCEPT !.failed = @ \cup {r.entry}]
    /\ UNCHANGED <<root, clock, chatVars, appVars, voiceVars, speakFetches, audios,
                   tracker, reportVars>>

TrackNext ==
    \/ \E level \in FatigueLevels : TrackerSetFatigue(level)
    \/ \E symptom \in SymptomOptions : TrackerToggleSymptom(symptom)
    \/ TrackerHandleSubmit
    \/ TrackerToastTimeout
    \/ \E r \in logReqs : LogResponseOk(r)
    \/ \E r \in logReqs : \E thrown \in BOOLEAN : LogResponseFail(r, thrown)

\* --------------------------------------------------------- AnalyticsReport
DefaultDays == 7                    \* useState(7)
DayOptions == {DefaultDays, 14}     \* options of the days select
NoData == [days |-> 0, fetch |-> 0] \* no value: [] / null / item not stored
ReportFetchError == "Failed to fetch report data"
ReportConnectError == "Failed to connect to server"

\* String(days) and Number(cachedDays)
DaysToString(d) == IF d = 7 THEN "7" ELSE IF d = 14 THEN "14" ELSE "NaN"
StringToDays(str) == IF str = "7" THEN 7 ELSE IF str = "14" THEN 14 ELSE 0

\* The state of a newly rendered AnalyticsReport.  The display-only
\* lastFetched time is left out.
ReportFresh(gen, mounted) ==
    [gen |-> gen, mounted |-> mounted, logs |-> NoData, summary |-> NoData,
     days |-> DefaultDays, isLoading |-> FALSE, error |-> None]

ReportInit ==
    /\ report = ReportFresh(0, FALSE)
    /\ storage = [logs |-> NoData, summary |-> NoData, days |-> None]
    /\ reportReqs = {}

\* The mount effect: load the cached report, if both parts are cached
LoadCache(rp, st) ==
    IF st.logs # NoData /\ st.summary # NoData
    THEN [rp EXCEPT !.logs = st.logs, !.summary = st.summary,
                    !.days = IF st.days # None THEN StringToDays(st.days) ELSE @]
    ELSE rp

\* The report tab is selected: AnalyticsReport mounts
ReportMount ==
    /\ root = "AppReport"
    /\ ~report.mounted
    /\ report.gen < MaxReportMounts
    /\ report' = LoadCache(ReportFresh(report.gen + 1, TRUE), storage)
    /\ UNCHANGED <<root, clock, chatVars, appVars, voiceVars, speakFetches, audios,
                   trackVars, storage, reportReqs>>

\* Another tab is selected: AnalyticsReport unmounts, its state is gone
ReportUnmount ==
    /\ root = "AppReport"
    /\ report.mounted
    /\ report' = ReportFresh(report.gen, FALSE)
    /\ UNCHANGED <<root, clock, chatVars, appVars, voiceVars, speakFetches, audios,
                   trackVars, storage, reportReqs>>

\* onChange of the days select
ReportSetDays(d) ==
    /\ root = "AppReport"
    /\ report.mounted
    /\ report.days # d
    /\ report' = [report EXCEPT !.days = d]
    /\ UNCHANGED <<root, clock, chatVars, appVars, voiceVars, speakFetches, audios,
                   trackVars, storage, reportReqs>>

\* The refresh button (disabled while isLoading): fetchData up to
\* `await Promise.all([...])`
ReportFetchData ==
    /\ root = "AppReport"
    /\ report.mounted
    /\ ~report.isLoading
    /\ clock < MaxFetches
    /\ clock' = clock + 1
    /\ report' = [report EXCEPT !.isLoading = TRUE, !.error = None]
    /\ reportReqs' = reportReqs \cup
            {[fetch |-> clock + 1, gen |-> report.gen, days |-> report.days]}
    /\ UNCHANGED <<root, chatVars, appVars, voiceVars, speakFetches, audios,
                   trackVars, storage>>

\* What fetchData writes to sessionStorage when both responses were parsed
StoreReport(st, r, logsOk, summaryOk) ==
    [logs |-> IF logsOk THEN [days |-> r.days, fetch |-> r.fetch] ELSE st.logs,
     summary |-> IF summaryOk THEN [days |-> r.days, fetch |-> r.fetch]
                 ELSE st.summary,
     days |-> DaysToString(r.days)]

\* fetchData resumed with both responses parsed; logsOk and summaryOk are
\* the success fields of the two bodies.  The state setters have no effect
\* once the instance that called fetchData is unmounted.
ReportFetchDone(r, logsOk, summaryOk) ==
    /\ root = "AppReport"
    /\ r \in reportReqs
    /\ reportReqs' = reportReqs \ {r}
    /\ storage' = StoreReport(storage, r, logsOk, summaryOk)
    /\ report' = IF report.mounted /\ report.gen = r.gen
                 THEN [report EXCEPT
                        !.logs = IF logsOk THEN [days |-> r.days, fetch |-> r.fetch]
                                 ELSE @,
                        !.summary = IF summaryOk
                                    THEN [days |-> r.days, fetch |-> r.fetch] ELSE @,
                        !.error = IF ~logsOk /\ ~summaryOk THEN ReportFetchError ELSE @,
                        !.isLoading = FALSE]
                 ELSE report
    /\ UNCHANGED <<root, clock, chatVars, appVars, voiceVars, speakFetches, audios,
                   trackVars>>

\* fetchData resumed in its catch block (a fetch or a json() threw)
ReportFetchThrows(r) ==
    /\ root = "AppReport"
    /\ r \in reportReqs
    /\ reportReqs' = reportReqs \ {r}
    /\ report' = IF report.mounted /\ report.gen = r.gen
                 THEN [report EXCEPT !.error = ReportConnectError,
                                     !.isLoading = FALSE]
                 ELSE report
    /\ UNCHANGED <<root, clock, chatVars, appVars, voiceVars, speakFetches, audios,
                   trackVars, storage>>

ReportNext ==
    \/ ReportMount
    \/ ReportUnmount
    \/ \E d \in DayOptions : ReportSetDays(d)
    \/ ReportFetchData
    \/ \E r \in reportReqs : \E logsOk, summaryOk \in BOOLEAN :
            ReportFetchDone(r, logsOk, summaryOk)
    \/ \E r \in reportReqs : ReportFetchThrows(r)

\* ------------------------------------------------------------ specification
Init ==
    /\ root \in {"App", "Chat", "AppTrack", "AppReport"}
    /\ clock = 0
    /\ ChatInit
    /\ AppInit
    /\ VoiceInit
    /\ speakFetches = {}
    /\ audios = {}
    /\ TrackInit
    /\ ReportInit

Next == ChatNext \/ AppNext \/ VoiceNext \/ TrackNext \/ ReportNext

Spec == Init /\ [][Next]_vars

\* What the browser does on its own: a recognizer that was stopped, or that
\* delivered a result or an error, fires its end event; a pending fetch
\* settles; a playing audio element reaches its end.  The user's taps and
\* the recognizer's results and errors are under no obligation to happen.
VoiceResponse == \E r \in voiceReqs :
    \/ \E sid \in ResponseSessionIds : VoiceResponseOk(r, sid)
    \/ VoiceResponseFail(r)

VoiceSpeakSettles ==
    \E f \in speakFetches : \E ok, plays \in BOOLEAN : VoicePlayTTSResume(f, ok, plays)

VoicePlaybackEnds == \E a \in audios : VoiceAudioEnded(a)

AppResponse == \E r \in appReqs :
    \/ \E sid \in ResponseSessionIds : AppResponseOk(r, sid)
    \/ AppResponseFail(r)

AppSpeakSettles ==
    \E f \in speakFetches : \E ok, plays \in BOOLEAN : AppSpeakTextResume(f, ok, plays)

AppPlaybackEnds == \E a \in audios : AppAudioEnded(a) \/ AppAudioError(a)

FairSpec ==
    /\ Spec
    /\ WF_vars(RecEnd)
    /\ WF_vars(VoiceResponse)
    /\ WF_vars(VoiceSpeakSettles)
    /\ WF_vars(VoicePlaybackEnds)
    /\ WF_vars(AppResponse)
    /\ WF_vars(AppSpeakSettles)
    /\ WF_vars(AppPlaybackEnds)

\* ------------------------------------------------------------------ claims
AllReqs == chatReqs \cup appReqs \cup voiceReqs
UserMsgOf(r) == Msg("user", r.message, r.turn)
Last(s) == s[Len(s)]

\* C1: in the VoiceAssistant, the history handleUserSpeech passes to
\* chatWithAgent is exactly the user and assistant turns of the turns
\* completed before it, and never holds the message being sent.
C1_VoiceHistoryIsPriorTurns ==
    \A r \in voiceReqs :
        /\ r.history = r.committed
        /\ UserMsgOf(r) \notin SeqToSet(r.history)

\* C2: in Chat, the history sendMessage passes to chatWithAgent is the
\* transcript of the turns committed before it (since the last clearChat), in
\* order, and never holds the message being sent.
C2_ChatHistoryIsCommittedTurns ==
    \A r \in chatReqs :
        /\ r.history = r.committed
        /\ UserMsgOf(r) \notin SeqToSet(r.history)

\* C3: on every surface, a request issued after a response brought a
\* non-empty session id (and before a clear) carries the id adopted last.
C3_RequestsCarryAdoptedSession ==
    \A r \in AllReqs : r.adopted # None => r.sessionId = r.adopted

\* C4: at most one chat request is in flight on each surface.
C4_OneRequestInFlight ==
    /\ Cardinality(appReqs) <= 1
    /\ Cardinality(chatReqs) <= 1
    /\ Cardinality(voiceReqs) <= 1

\* C5: at most one audio element created by speakText is playing.
C5_OneSpeakTextAudio ==
    Cardinality({a \in audios : a.owner = "App"}) <= 1

\* C6: a chat response that arrives after clearChat, clearConversation or
\* the close of the voice surface changes no transcript and no session id,
\* and starts no synthesis or playback.
C6_LateResponseIgnored ==
    [][ /\ \A r \in chatReqs :
              (r.stale /\ r \notin chatReqs') =>
                  /\ chat'.messages = chat.messages
                  /\ chat'.sessionId = chat.sessionId
        /\ \A r \in voiceReqs :
              (r.stale /\ r \notin voiceReqs') =>
                  /\ voice'.history = voice.history
                  /\ voice'.sessionId = voice.sessionId
                  /\ app'.messages = app.messages
                  /\ speakFetches' = speakFetches
                  /\ audios' = audios ]_vars

\* C7 as stated: when a chat request fails, the user's message stays in the
\* surface's transcript with a visible error, the session id is unchanged
\* and the surface is idle again.
C7_FailureKeepsUserMessage ==
    [][ /\ \A r \in chatReqs : ChatResponseFail(r) =>
              /\ UserMsgOf(r) \in SeqToSet(chat'.messages)
              /\ chat'.error # None
              /\ chat'.sessionId = chat.sessionId
              /\ ~chat'.isLoading
        /\ \A r \in appReqs : AppResponseFail(r) =>
              /\ UserMsgOf(r) \in SeqToSet(app'.messages)
              /\ Last(app'.messages) = Msg("assistant", AppAgentError, r.turn)
              /\ app'.sessionId = app.sessionId
              /\ ~app'.isThinking
        /\ \A r \in voiceReqs : (VoiceResponseFail(r) /\ IsMounted(r.gen)) =>
              /\ UserMsgOf(r) \in SeqToSet(app'.messages)
              /\ voice'.error # None
              /\ voice'.sessionId = voice.sessionId
              /\ voice'.voiceState = "idle" ]_vars

\* C7 amended: as C7, except that Chat.sendMessage removes the user's
\* message: it resets messages to the list captured when the message was
\* sent and shows the error text.
C7_FailureHandling ==
    [][ /\ \A r \in chatReqs : ChatResponseFail(r) =>
              /\ chat'.messages = r.messages
              /\ UserMsgOf(r) \notin SeqToSet(chat'.messages)
              /\ chat'.error = ChatSendError
              /\ chat'.sessionId = chat.sessionId
              /\ ~chat'.isLoading
        /\ \A r \in appReqs : AppResponseFail(r) =>
              /\ UserMsgOf(r) \in SeqToSet(app'.messages)
              /\ Last(app'.messages) = Msg("assistant", AppAgentError, r.turn)
              /\ app'.sessionId = app.sessionId
              /\ ~app'.isThinking
        /\ \A r \in voiceReqs : (VoiceResponseFail(r) /\ IsMounted(r.gen)) =>
              /\ UserMsgOf(r) \in SeqToSet(app'.messages)
              /\ voice'.error = VoiceAgentError
              /\ voice'.sessionId = voice.sessionId
              /\ voice'.voiceState = "idle" ]_vars

\* A Chat request sent with an adopted session id and a non-empty transcript
\* has just failed
C7_Witness ==
    /\ chatGhost.failed
    /\ chat.error = ChatSendError
    /\ ~chat.isLoading
    /\ chat.sessionId # None
    /\ chat.messages = chatGhost.failHist
    /\ Len(chat.messages) > 0

\* C8: the request that follows a failed request on a surface sends the
\* history the failed request had sent: the failed turn left nothing in it.
C8_FailedTurnNotInHistory ==
    \A r \in AllReqs : r.afterFailure => r.history = r.failHist

\* C9: a failed /speak request or a refused or broken playback leaves every
\* transcript and session id as the successful reply left them.
C9_SynthesisFailureKeepsTranscript ==
    [][ ( \/ \E f \in speakFetches : \E ok, plays \in BOOLEAN :
                /\ ~(ok /\ plays)
                /\ \/ AppSpeakTextResume(f, ok, plays)
                   \/ VoicePlayTTSResume(f, ok, plays)
                   \/ ChatPlayTTSResume(f, ok, plays)
          \/ \E a \in audios : AppAudioError(a) )
        => /\ app'.messages = app.messages
           /\ app'.sessionId = app.sessionId
           /\ voice'.history = voice.history
           /\ voice'.sessionId = voice.sessionId
           /\ chat'.messages = chat.messages
           /\ chat'.sessionId = chat.sessionId ]_vars

\* C10: clearChat and clearConversation leave an empty transcript and no
\* session id whatever the state before, and clearing the state they leave
\* changes nothing.
C10_ClearResetsAndIsIdempotent ==
    [][ /\ ChatClearChat =>
              /\ chat'.messages = <<>>
              /\ chat'.sessionId = None
              /\ clearChat(chat') = chat'
        /\ VoiceClearConversation =>
              /\ voice'.history = <<>>
              /\ voice'.sessionId = None
              /\ clearConversation(voice') = voice' ]_vars

\* Chat was cleared while a request sent with a session id was in flight
C10_Witness ==
    /\ chat.messages = <<>>
    /\ chat.sessionId = None
    /\ \E r \in chatReqs : r.stale /\ r.sessionId # None /\ Len(r.messages) > 0

\* The VoiceAssistant instance that is rendered, if any
VoiceIsOpen == root = "App" /\ app.isVoiceActive

\* The audio elements of the rendered VoiceAssistant that are playing
VoiceAudios == {a \in audios : a.owner = "Voice" /\ a.gen = voice.gen}

\* C11: clearConversation leaves voiceState idle whatever it was, and leaves
\* no capture cycle of the recognizer and no reply audio of the surface
\* active.
C11_ClearForcesIdle ==
    [][ VoiceClearConversation =>
            /\ voice'.voiceState = "idle"
            /\ rec'.state = "inactive"
            /\ VoiceAudios' = {} ]_vars

\* C12: while the VoiceAssistant stays mounted, voiceState changes only
\* along idle->listening, listening->processing, processing->speaking,
\* processing->idle, speaking->idle and listening->idle.
VoiceEdges ==
    {<<"idle", "listening">>, <<"listening", "processing">>,
     <<"processing", "speaking">>, <<"processing", "idle">>,
     <<"speaking", "idle">>, <<"listening", "idle">>}

C12_VoiceStateEdges ==
    [][ (VoiceIsOpen /\ VoiceIsOpen' /\ voice'.gen = voice.gen
         /\ voice'.voiceState # voice.voiceState)
        => <<voice.voiceState, voice'.voiceState>> \in VoiceEdges ]_vars

\* C13: while a chat request of the rendered VoiceAssistant is in flight,
\* voiceState is processing (so the main button is disabled).
C13_InFlightMeansProcessing ==
    \A r \in voiceReqs :
        IsMounted(r.gen) => voice.voiceState = "processing"

\* C14: while reply audio of the rendered VoiceAssistant is playing,
\* voiceState is speaking (so the main button invokes stopSpeaking).
C14_PlayingMeansSpeaking ==
    VoiceIsOpen => (VoiceAudios # {} => voice.voiceState = "speaking")

\* C15: once the user has invoked stopSpeaking in state speaking, no audio
\* of the turn that was being spoken is playing, however late its /speak
\* request completes.
C15_StoppedTurnStaysSilent ==
    \A a \in audios : a.owner = "Voice" => a.turn \notin voiceGhost.stopped

\* C16: a reply handled by the rendered VoiceAssistant enters speaking and
\* requests synthesis only if the speech-output setting of the App is on at
\* that moment.
C16_SpeaksOnlyIfEnabled ==
    [][ \A r \in voiceReqs : \A sid \in ResponseSessionIds :
            (VoiceResponseOk(r, sid) /\ IsMounted(r.gen) /\ ~app.isSpeechEnabled)
            => /\ speakFetches' = speakFetches
               /\ voice'.voiceState # "speaking" ]_vars

\* C17: once the user has invoked stopListening in state listening (the
\* recognizer is stopping), voiceState eventually leaves listening, whether
\* the recognizer ends the cycle with a final transcript, an error or
\* neither.  Closing the surface counts as leaving.
C17_ListeningTerminates ==
    (VoiceIsOpen /\ voice.voiceState = "listening" /\ rec.state = "stopping")
    ~> (~VoiceIsOpen \/ voice.voiceState # "listening")

\* C18: a no-speech error reported while voiceState is listening moves
\* voiceState straight to idle and shows an error text; it issues no chat
\* request and leaves the voice history, the session id and the App
\* transcript as they were; the end event that follows keeps idle (no
\* passage through processing).
C18_NoSpeechGoesIdle ==
    [][ /\ (RecError("no-speech") /\ voice.voiceState = "listening") =>
              /\ voice'.voiceState = "idle"
              /\ voice'.error # None
              /\ voiceReqs' = voiceReqs
              /\ clock' = clock
              /\ voice'.history = voice.history
              /\ voice'.sessionId = voice.sessionId
              /\ app'.messages = app.messages
        /\ (RecEnd /\ rec.state = "ending" /\ voice.voiceState = "idle") =>
              voice'.voiceState = "idle" ]_vars

\* A no-speech error has just been reported in a conversation that has a
\* history and a session id, and the recognizer has not fired its end yet
C18_Witness ==
    /\ VoiceIsOpen
    /\ rec.state = "ending"
    /\ voice.error = RecErrorMessage("no-speech", None)
    /\ voice.voiceState = "idle"
    /\ Len(voice.history) > 0
    /\ voice.sessionId # None
    /\ voiceReqs = {}

\* C19: every capture error delivered to recognition.onerror, whatever its
\* code, leaves voiceState idle and a non-empty error message displayed.
C19_EveryCaptureErrorShown ==
    [][ \A code \in ErrorCodes :
            RecError(code) => /\ voice'.voiceState = "idle"
                              /\ voice'.error # None ]_vars

\* C20: where speech recognition is unsupported, startListening leaves
\* voiceState idle and an error message displayed.
C20_UnsupportedReportsError ==
    [][ (VoiceStartListening /\ ~voice.recognitionRef) =>
            /\ voice'.voiceState = "idle"
            /\ voice'.error # None ]_vars

\* C21: startListening invoked while a capture cycle of the recognizer is
\* active starts no second cycle and changes no state of the surface.
C21_StartWhileCapturingIsNoOp ==
    [][ (VoiceStartListening /\ voice.recognitionRef /\ rec.state = "capturing")
        => /\ voice' = voice
           /\ rec' = rec ]_vars

\* A text that consists of whitespace only (the empty text included)
IsBlank(text) == \A i \in 1..Len(text) : text[i] = " "

\* C22: a submission that is empty after trimming whitespace issues no
\* chat request on any surface and changes no transcript and no session id.
C22_BlankSubmissionRejected ==
    [][ /\ \A text \in Texts : (IsBlank(text) /\ AppHandleSend(text)) =>
              /\ appReqs' = appReqs
              /\ clock' = clock
              /\ app'.messages = app.messages
              /\ app'.sessionId = app.sessionId
        /\ (IsBlank(chat.inputText) /\ ChatSendMessage) =>
              /\ chatReqs' = chatReqs
              /\ clock' = clock
              /\ chat'.messages = chat.messages
              /\ chat'.sessionId = chat.sessionId
        /\ \A text \in Texts : (IsBlank(text) /\ RecFinalResult(text)) =>
              /\ voiceReqs' = voiceReqs
              /\ clock' = clock
              /\ voice'.history = voice.history
              /\ voice'.sessionId = voice.sessionId
              /\ app'.messages = app.messages ]_vars

\* Chat holds a conversation with a session id and its input box holds a
\* single blank: the submission that sendMessage rejects
C22_Witness ==
    /\ root = "Chat"
    /\ chat.inputText = <<" ">>
    /\ ~chat.isLoading
    /\ Len(chat.messages) > 0
    /\ chat.sessionId # None
    /\ clock < MaxChatTurns

\* C23: a step of a voice turn (the final transcript, the reply or the
\* failure of handleUserSpeech) changes neither the history nor the session
\* id that App.handleSend would send, and a step of a text turn changes
\* neither the history nor the session id of the VoiceAssistant.
C23_SurfacesShareNoConversation ==
    [][ /\ ( \/ \E text \in Texts : RecFinalResult(text)
              \/ VoiceResponse )
            => /\ ToApiHistory(app'.messages) = ToApiHistory(app.messages)
               /\ app'.sessionId = app.sessionId
        /\ ( \/ \E text \in Texts : AppHandleSend(text)
              \/ \E r \in appReqs : \/ AppResponseFail(r)
                                     \/ \E sid \in ResponseSessionIds :
                                           AppResponseOk(r, sid) )
            => /\ voice'.history = voice.history
               /\ voice'.sessionId = voice.sessionId ]_vars

\* C24: every promise returned by speakText is eventually settled, so the
\* handleSend that awaits it reaches its finally block.
C24_SpeakTextCompletes ==
    \A t \in 1..MaxTurns : (t \in tts.pending) ~> (t \notin tts.pending)

\* C25: in App the stored session id is the one brought by the response to
\* the latest-issued request among those that brought one: the response to
\* an earlier request that arrives later does not replace it.
C25_SessionNeverReverted ==
    appGhost.latestTurn > 0 => app.sessionId = appGhost.latestSid

\* C26: at most one reply audio created by Chat.playTTS is playing, and at
\* most one created by VoiceAssistant.playTTS.
C26_OnePlayTTSAudio ==
    /\ Cardinality({a \in audios : a.owner = "Chat"}) <= 1
    /\ Cardinality({a \in audios : a.owner = "Voice"}) <= 1

\* The list alternates user, assistant, user, assistant and has even length
Alternates(messages) ==
    /\ Len(messages) % 2 = 0
    /\ \A i \in 1..Len(messages) :
          messages[i].role = IF i % 2 = 1 THEN "user" ELSE "assistant"

\* C27: whenever Chat has no request in flight (isLoading is false), its
\* messages alternate user, assistant from a user turn and have even length.
C27_ChatMessagesAlternate ==
    (root = "Chat" /\ ~chat.isLoading) => Alternates(chat.messages)

\* Chat is at rest with two exchanges on display, the later of which was
\* completed by a reply that arrived after a clearChat
C27_Witness ==
    /\ root = "Chat"
    /\ ~chat.isLoading
    /\ Len(chat.messages) = 4
    /\ Len(chatGhost.committed) = 2
    /\ chatReqs = {}

\* C28: no entry whose request failed or was refused by the backend has had
\* the 'Logged successfully!' confirmation (and the form reset) of the
\* Tracker.
C28_ConfirmationOnlyIfAccepted ==
    trackGhost.confirmed \cap trackGhost.failed = {}

\* C29: userData.logs and userData.metrics always have the same length;
\* a successful log response appends one entry to each, a failed or errored
\* one leaves userData unchanged, and nothing else changes userData.
C29_LogsAndMetricsTogether ==
    [][ /\ Len(appLog'.userData.logs) = Len(appLog'.userData.metrics)
        /\ \A r \in logReqs :
              /\ LogResponseOk(r) =>
                    /\ Len(appLog'.userData.logs) = Len(appLog.userData.logs) + 1
                    /\ Len(appLog'.userData.metrics) = Len(appLog.userData.metrics) + 1
              /\ \A thrown \in BOOLEAN :
                    LogResponseFail(r, thrown) => appLog'.userData = appLog.userData
        /\ (appLog'.userData # appLog.userData) =>
              \E r \in logReqs : LogResponseOk(r) ]_vars

\* One entry was accepted and appended, another one failed, and no request
\* is in flight
C29_Witness ==
    /\ root = "AppTrack"
    /\ logReqs = {}
    /\ trackGhost.accepted # {}
    /\ trackGhost.failed # {}
    /\ Len(appLog.userData.logs) = 1
    /\ ~appLog.isSyncing

\* C30: the logs and the summary cached in sessionStorage were both fetched
\* with the days value cached beside them.
C30_CacheBelongsToOneFetch ==
    /\ storage.logs # NoData =>
          storage.days # None /\ storage.logs.days = StringToDays(storage.days)
    /\ storage.summary # NoData =>
          storage.days # None /\ storage.summary.days = StringToDays(storage.days)

====
